---- MODULE Spec2Model ----
(***************************************************************************)
(* WG-Bridge: the asynchronous file logger (src/src/core/logger.rs) and    *)
(* its callers.  Producer threads call Logger::init / Logger::get and the  *)
(* level-tagged logging operations; every Logger::init creates one mpsc    *)
(* channel and spawns one worker thread that opens the log file and writes *)
(* the lines it receives.  Config::init / Config::get                     *)
(* (src/src/core/config.rs) publish the configuration read from, or        *)
(* created in, the JSON file in the home directory and report failures     *)
(* through the Logger; src/src/main.rs calls them in order.                *)
(***************************************************************************)
EXTENDS Naturals, Integers, Sequences, FiniteSets, TLC

(* ------------------------------ bounds ------------------------------- *)
\* producer threads besides the main thread
NumProducers == 1
\* Logger::init calls made in one run (each creates a channel and a worker)
MaxInits == 2
\* lines formatted in one run, all threads together
MaxLines == 3
\* lines formatted in one run of the single-caller specification
MaxSeqLines == 4
\* lines formatted in one run of the initialisation specification
MaxInitLines == 2
\* readings of the wall clock (Local::now) range over 0..MaxClock
MaxClock == 1
\* failed writeln! calls in one run
MaxWriteFails == 1
\* log file paths handed to Logger::init
NumPaths == 2
\* save_config calls that fail in one run
MaxSaveFails == 1
\* characters in the app_name of a configuration that is saved and loaded
MaxStrLen == 2
\* characters in the config_path of each of its user entries
MaxFieldLen == 1
\* user entries of such a configuration
MaxUsers == 2

Main == 0
Threads == 0..NumProducers
Chans == 1..MaxInits
Paths == 1..NumPaths
Methods == {"debug", "info", "warn", "error"}
Msgs == {"a", "b"}
ErrTexts == {"boom"}
NoLine == [src |-> 0, call |-> 0, part |-> 0, ts |-> 0, level |-> "", text |-> ""]
\* the log path main passes to Logger::init, and the one other callers pass
MainLogPath == 1
OtherLogPath == 2
NoThread == 0 - 1
\* configuration paths: ~/.wgbconf.json and the temporary file of the test
HomeCfg == "home"
TmpCfg == "tmp"
CfgPaths == {HomeCfg, TmpCfg}
NoFile == [there |-> FALSE, readable |-> TRUE, text |-> << >>]
NoResult == [ok |-> FALSE, val |-> << >>, done |-> FALSE]
SaveErrorText == "Problem saving the config file"
LoadErrorText == "Failed to read the configuration"

VARIABLES
  LOGGER,     \* static LOGGER: OnceLock<Logger>; 0 = unset, else the channel of the stored sender
  nchan,      \* channels created so far (one per Logger::init call)
  initRes,    \* per init call: "none", "pending", "published", "rejected"
  queue,      \* per channel: lines sent and not yet received
  senders,    \* per channel: live Sender values
  rx,         \* per channel: "none", "alive", "dropped" (the Receiver)
  sent,       \* history: per channel, the successful sends in order
  ntaken,     \* history: per channel, how many lines the worker has received
  discarded,  \* history: lines whose send returned Err (result ignored)
  wstate,     \* per worker: "none","spawned","recv","write","flush","done","panicked"
  wpath,      \* per worker: the path it was given
  wcur,       \* per worker: the message of the current loop iteration
  file,       \* per path: the entries appended, in order
  failed,     \* history: lines whose writeln! returned Err
  errs,       \* lines printed to stderr by the worker ("Failed to write log")
  pc,         \* per thread: "ready","init_set","get","send","returned", and
              \* "init_panic" / "get_panic" after the panic of init / get
  handle,     \* per thread: the &'static Logger it got from Logger::get (0 = none)
  initCh,     \* per thread: the channel of its Logger::init call in progress
  pending,    \* per thread: formatted lines of the current call, not yet sent
  calls,      \* per thread: logging calls made
  issued,     \* history: per thread, the logging calls made (method, message, error)
  nlines,     \* lines formatted so far
  now,        \* the wall clock
  exited,     \* the process has ended (main returned or panicked)
  CONFIG,     \* static CONFIG: OnceLock<Mutex<Config>>; << >> = unset, else <<config>>
  cfgGuard,   \* the thread holding the MutexGuard of CONFIG (NoThread = unlocked);
              \* a holder that has panicked has released it and left it poisoned
  home,       \* home_dir() returns Some
  disk,       \* per configuration path: the file there
  cfgLog,     \* per thread: the &'static Logger that Config::init got (0 = none)
  cfgLocal,   \* per thread: the local Config value (<< >> = none, else <<config>>)
  loaded,     \* per thread: the Result of its last load_config
  saveErrs    \* save_config calls that returned Err

chanVars == <<queue, senders, rx, sent, ntaken, discarded>>
workVars == <<wstate, wpath, wcur, file, failed, errs>>
thrVars == <<pc, handle, initCh, pending, calls, issued, nlines>>
cfgVars == <<CONFIG, cfgGuard, home, disk, cfgLog, cfgLocal, loaded, saveErrs>>
vars == <<LOGGER, nchan, initRes, chanVars, workVars, thrVars, now, exited, cfgVars>>

(* --------------------------- pure helpers ---------------------------- *)
\* OnceLock::set returns Ok only for an empty cell
OnceLockSetOk(cell) == cell = 0
\* (a get that never finds the cell empty)
OnceLockNeverEmpty(cell) == TRUE
\* OnceLock::get: Some only when the cell is set
OnceLockIsSet(cell) == cell # 0
\* (a set that overwrites)
OnceLockOverwrite(cell, v) == v
\* OnceLock::set: stores only into an empty cell
OnceLockSet(cell, v) == IF cell = 0 THEN v ELSE cell

\* the level string each public method passes to log / log_error
LevelOf(meth) ==
  CASE meth = "debug" -> "DEBUG"
    [] meth = "info"  -> "INFO"
    [] meth = "warn"  -> "WARN"
    [] meth = "error" -> "ERROR"

\* format!("{timestamp:<20} - {level:<8}  {message}"): the line as its three
\* fields; src, call and part record which call of which thread made it.
FormatLine(t, k, part, ts, level, text) ==
  [src |-> t, call |-> k, part |-> part, ts |-> ts, level |-> level, text |-> text]

\* (a log that leaves out DEBUG lines)
LogLinesNoDebug(t, k, ts, level, m) ==
  IF level = "DEBUG" THEN << >> ELSE << FormatLine(t, k, 1, ts, level, m) >>
\* Logger::log: one line
LogLines(t, k, ts, level, m) == << FormatLine(t, k, 1, ts, level, m) >>

\* (a log_error that reads the clock again for the error line)
LogErrorLinesTwoClocks(t, k, ts, level, m, e) ==
  << FormatLine(t, k, 1, ts, level, m), FormatLine(t, k, 2, ts + 1, level, e) >>
\* Logger::log_error: the message line, then the error line, one timestamp
LogErrorLines(t, k, ts, level, m, e) ==
  << FormatLine(t, k, 1, ts, level, m), FormatLine(t, k, 2, ts, level, e) >>

\* (a channel that hands out the newest line first)
ChannelPushFront(q, l) == <<l>> \o q
\* Sender::send on a connected channel: the queue is first-in first-out
ChannelPush(q, l) == Append(q, l)
\* (a receiver that yields the newest queued line)
ChannelFrontNewest(q) == q[Len(q)]
\* the next item the receiver's iterator yields, and what stays queued
ChannelFront(q) == Head(q)
\* (a receiver that loses the line after the one it yields)
ChannelRestSkip(q) == IF Len(q) > 1 THEN Tail(Tail(q)) ELSE Tail(q)
ChannelRest(q) == Tail(q)
\* (a channel that keeps accepting after the Receiver is gone)
ChannelAlwaysConnected(r) == TRUE
\* Sender::send returns Ok only while the Receiver is alive
ChannelConnected(r) == r = "alive"
\* (a bounded channel, as mpsc::sync_channel(1))
ChannelRoomForOne(q) == Len(q) < 1
\* mpsc::channel is unbounded: a send never waits for room
ChannelHasRoom(q) == TRUE

\* line 47: the receive loop ends only when recv() reports a disconnected
\* channel, that is when nothing is queued and no Sender is left
ChannelCloseOnEmpty(q, n) == q = << >>
ChannelDisconnected(q, n) == q = << >> /\ n = 0

\* main.rs line 37 (and logger.rs 40, where the JoinHandle is dropped): main
\* returns whatever a worker with queue q and state w still has to do
ProcessJoinsWorker(q, w) == q = << >> /\ w \notin {"spawned", "write", "flush"}
ProcessMayExit(q, w) == TRUE

\* lines 41-45: what the worker does once open() has returned: it enters
\* the receive loop, or expect() panics and the thread is over
WorkerRetryOpen(ok) == IF ok THEN "recv" ELSE "spawned"
WorkerAfterOpen(ok) == IF ok THEN "recv" ELSE "panicked"

\* lines 48-51: what the worker does once writeln! has returned: after Ok
\* and after Err alike it flushes and goes back to the head of the loop
WorkerStopOnError(ok) == IF ok THEN "flush" ELSE "done"
WorkerAfterWrite(ok) == "flush"

(* --------------------- configuration: JSON text ---------------------- *)
\* A string is a sequence of characters; a JSON text is a sequence of
\* tokens: the punctuation, the field names, true / false, line breaks,
\* and the characters of string values between two Quote tokens.
Quote == "\""
Esc == "\\"
JsonFail == [ok |-> FALSE, val |-> << >>, rest |-> << >>]

\* serde_json writes a string value with '"' and '\' preceded by '\'
RECURSIVE JsonEscape(_)
JsonEscape(s) ==
  IF s = << >> THEN << >>
  ELSE (IF Head(s) \in {Quote, Esc} THEN <<Esc, Head(s)>> ELSE <<Head(s)>>)
         \o JsonEscape(Tail(s))

JsonStringRaw(s) == <<Quote>> \o s \o <<Quote>>
JsonString(s) == <<Quote>> \o JsonEscape(s) \o <<Quote>>

JsonUser(u) ==
  <<"{", "nl", "config_path", ":">> \o JsonString(u.config_path)
    \o <<",", "nl", "otp", ":", IF u.otp THEN "true" ELSE "false">>
    \o <<",", "nl", "otp_uri", ":">> \o JsonString(u.otp_uri) \o <<"nl", "}">>

RECURSIVE JsonUsers(_)
JsonUsers(us) ==
  IF us = << >> THEN << >>
  ELSE <<"nl">> \o JsonUser(Head(us))
         \o (IF Tail(us) = << >> THEN <<"nl">> ELSE <<",">> \o JsonUsers(Tail(us)))

\* serde_json::to_string_pretty(config), config.rs line 122: the fields in
\* declaration order, one per line
ToStringPretty(c) ==
  <<"{", "nl", "app_name", ":">> \o JsonString(c.app_name)
    \o <<",", "nl", "version", ":">> \o JsonString(c.version)
    \o <<",", "nl", "user", ":", "[">> \o JsonUsers(c.user) \o <<"]", "nl", "}">>

RECURSIVE SkipWs(_)
SkipWs(ts) == IF ts # << >> /\ Head(ts) = "nl" THEN SkipWs(Tail(ts)) ELSE ts

\* A parse is [ok, val, rest]: whether it still succeeds, the value built so
\* far, and the tokens not yet read.
ParseStart(ts, v) == [ok |-> TRUE, val |-> v, rest |-> ts]

\* the tokens toks, in this order, white space allowed before each
RECURSIVE Expect(_, _)
RECURSIVE ExpectHead(_, _, _)
ExpectHead(st, r, toks) ==
  IF r # << >> /\ Head(r) = Head(toks)
    THEN Expect([st EXCEPT !.rest = Tail(r)], Tail(toks))
    ELSE JsonFail
Expect(st, toks) ==
  IF ~st.ok THEN JsonFail
  ELSE IF toks = << >> THEN st
  ELSE ExpectHead(st, SkipWs(st.rest), toks)

\* the characters of a string value up to its closing quote, unescaped,
\* appended to acc; a raw line break or a bad escape is an error
RECURSIVE ReadChars(_, _)
ReadChars(ts, acc) ==
  IF ts = << >> THEN JsonFail
  ELSE IF Head(ts) = Quote THEN [ok |-> TRUE, val |-> acc, rest |-> Tail(ts)]
  ELSE IF Head(ts) = Esc
    THEN IF Len(ts) < 2 \/ ts[2] \notin {Quote, Esc} THEN JsonFail
         ELSE ReadChars(Tail(Tail(ts)), Append(acc, ts[2]))
  ELSE IF Head(ts) = "nl" THEN JsonFail
  ELSE ReadChars(Tail(ts), Append(acc, Head(ts)))

\* store the value of the parse r in the field of the parse st
SetField(st, field, r) ==
  IF r.ok THEN [ok |-> TRUE, val |-> [st.val EXCEPT ![field] = r.val], rest |-> r.rest]
  ELSE JsonFail

ReadString(q) == IF q.ok THEN ReadChars(q.rest, << >>) ELSE JsonFail
ParseString(st, field) ==
  IF st.ok THEN SetField(st, field, ReadString(Expect(st, <<Quote>>))) ELSE JsonFail

ReadBool(r) ==
  IF r # << >> /\ Head(r) \in {"true", "false"}
    THEN [ok |-> TRUE, val |-> Head(r) = "true", rest |-> Tail(r)]
    ELSE JsonFail
ParseBool(st, field) ==
  IF st.ok THEN SetField(st, field, ReadBool(SkipWs(st.rest))) ELSE JsonFail

EmptyUser == [config_path |-> << >>, otp |-> FALSE, otp_uri |-> << >>]
ParseUser(ts) ==
  Expect(
    ParseString(
      Expect(
        ParseBool(
          Expect(
            ParseString(
              Expect(ParseStart(ts, EmptyUser), <<"{", "config_path", ":">>),
              "config_path"),
            <<",", "otp", ":">>),
          "otp"),
        <<",", "otp_uri", ":">>),
      "otp_uri"),
    <<"}">>)

\* the elements of the array after "[" or ",", up to and including "]"
RECURSIVE ParseUserList(_, _)
RECURSIVE AfterUser(_, _)
RECURSIVE AfterUserSep(_, _)
AfterUserSep(r, acc) ==
  IF r = << >> THEN JsonFail
  ELSE IF Head(r) = "," THEN ParseUserList(Tail(r), acc)
  ELSE IF Head(r) = "]" THEN [ok |-> TRUE, val |-> acc, rest |-> Tail(r)]
  ELSE JsonFail
AfterUser(u, acc) ==
  IF u.ok THEN AfterUserSep(SkipWs(u.rest), Append(acc, u.val)) ELSE JsonFail
ParseUserList(ts, acc) == AfterUser(ParseUser(ts), acc)

ReadUsers(r) ==
  IF r # << >> /\ Head(r) = "]" THEN [ok |-> TRUE, val |-> << >>, rest |-> Tail(r)]
  ELSE ParseUserList(r, << >>)
AfterBracket(a) == IF a.ok THEN ReadUsers(SkipWs(a.rest)) ELSE JsonFail
ParseUsers(st, field) ==
  IF st.ok THEN SetField(st, field, AfterBracket(Expect(st, <<"[">>))) ELSE JsonFail

\* serde_json::from_str::<Config>(&content), config.rs line 107: an Err for
\* anything that is not one whole object with the three fields
EmptyConfig == [app_name |-> << >>, version |-> << >>, user |-> << >>]
ParseEnd(st) ==
  IF st.ok /\ SkipWs(st.rest) = << >> THEN [ok |-> TRUE, val |-> st.val]
  ELSE [ok |-> FALSE, val |-> << >>]
FromStr(ts) ==
  ParseEnd(
    Expect(
      ParseUsers(
        Expect(
          ParseString(
            Expect(
              ParseString(
                Expect(ParseStart(ts, EmptyConfig), <<"{", "app_name", ":">>),
                "app_name"),
              <<",", "version", ":">>),
            "version"),
          <<",", "user", ":">>),
        "user"),
      <<"}">>))

\* the configuration Config::init creates when there is no file, lines 76-80
DefaultConfig ==
  [app_name |-> <<"WGBridge">>, version |-> <<"CARGO_PKG_VERSION">>, user |-> << >>]
\* the configuration of tests/config_test.rs
SampleConfig ==
  [app_name |-> <<"MyApp">>, version |-> <<"0-alpha">>,
   user |-> << [config_path |-> <<"/tmp/file">>, otp |-> FALSE, otp_uri |-> << >>] >>]

\* fs::write(path, text), line 123: File::create truncates the file (or
\* fails and leaves everything as it was), write_all replaces the content
\* (or fails after writing only the first part characters of it)
FsWrite(f, text, outcome, part) ==
  IF outcome = "ok" THEN [f EXCEPT !.there = TRUE, !.text = text]
  ELSE IF outcome = "write_fails" THEN [f EXCEPT !.there = TRUE, !.text = SubSeq(text, 1, part)]
  ELSE f

\* Config::save_config, lines 121-125: the file afterwards
SaveNothing(f, c, outcome, part) == f
SaveConfig(f, c, outcome, part) == FsWrite(f, ToStringPretty(c), outcome, part)

\* Config::load_config, lines 105-109: read_to_string, then from_str
LoadResult(r) == [ok |-> r.ok, val |-> r.val, done |-> TRUE]
LoadSkipsParse(f) == [ok |-> TRUE, val |-> DefaultConfig, done |-> TRUE]
LoadConfig(f) ==
  IF ~f.there \/ ~f.readable THEN [ok |-> FALSE, val |-> << >>, done |-> TRUE]
  ELSE LoadResult(FromStr(f.text))

\* OnceLock<Mutex<Config>>::set / get on the cell holding << >> or <<config>>
ConfigSetOk(cell) == cell = << >>
ConfigSet(cell, v) == IF cell = << >> THEN v ELSE cell
ConfigAlwaysSet(cell) == TRUE
ConfigIsSet(cell) == cell # << >>

\* a thread that panics ends; the main thread's panic ends the process
AfterPanic(t) == exited \/ t = Main

(* ------------------------------- Init -------------------------------- *)
LoggerIdle ==
  /\ LOGGER = 0
  /\ nchan = 0
  /\ initRes = [c \in Chans |-> "none"]
  /\ queue = [c \in Chans |-> << >>]
  /\ senders = [c \in Chans |-> 0]
  /\ rx = [c \in Chans |-> "none"]
  /\ sent = [c \in Chans |-> << >>]
  /\ ntaken = [c \in Chans |-> 0]
  /\ discarded = {}
  /\ wstate = [c \in Chans |-> "none"]
  /\ wpath = [c \in Chans |-> 1]
  /\ wcur = [c \in Chans |-> NoLine]
  /\ file = [p \in Paths |-> << >>]
  /\ failed = {}
  /\ errs = 0
  /\ pc = [t \in Threads |-> "ready"]
  /\ handle = [t \in Threads |-> 0]
  /\ initCh = [t \in Threads |-> 0]
  /\ pending = [t \in Threads |-> << >>]
  /\ calls = [t \in Threads |-> 0]
  /\ issued = [t \in Threads |-> << >>]
  /\ nlines = 0
  /\ now = 0
  /\ exited = FALSE

\* nothing of the configuration store is in use; h says whether the home
\* directory can be determined, d is what the configuration paths hold
ConfigFresh(h, d) ==
  /\ CONFIG = << >>
  /\ cfgGuard = NoThread
  /\ home = h
  /\ disk = d
  /\ cfgLog = [t \in Threads |-> 0]
  /\ cfgLocal = [t \in Threads |-> << >>]
  /\ loaded = [t \in Threads |-> NoResult]
  /\ saveErrs = 0

ConfigIdle == ConfigFresh(TRUE, [q \in CfgPaths |-> NoFile])

Init == LoggerIdle /\ ConfigIdle

(* ------------------------- producer threads -------------------------- *)
\* Logger::init, lines 36-53: create the channel, spawn the worker
CallInit(t, p, cap) ==
  /\ ~exited /\ pc[t] = "ready" /\ nchan < cap
  /\ LET c == nchan + 1 IN
       /\ nchan' = c
       /\ initRes' = [initRes EXCEPT ![c] = "pending"]
       /\ senders' = [senders EXCEPT ![c] = 1]
       /\ rx' = [rx EXCEPT ![c] = "alive"]
       /\ wstate' = [wstate EXCEPT ![c] = "spawned"]
       /\ wpath' = [wpath EXCEPT ![c] = p]
       /\ initCh' = [initCh EXCEPT ![t] = c]
       /\ pc' = [pc EXCEPT ![t] = "init_set"]
  /\ UNCHANGED <<cfgVars, LOGGER, queue, sent, ntaken, discarded, wcur, file, failed, errs,
                 handle, pending, calls, issued, nlines, now, exited>>

\* Logger::init, lines 55-56: LOGGER.set(logger).expect(..); on Err the
\* rejected Logger (and its Sender) is dropped by the panic
InitSet(t) ==
  /\ ~exited /\ pc[t] = "init_set"
  /\ LET c == initCh[t]
         ok == OnceLockSetOk(LOGGER) IN
       /\ LOGGER' = OnceLockSet(LOGGER, c)
       /\ initRes' = [initRes EXCEPT ![c] = IF ok THEN "published" ELSE "rejected"]
       /\ senders' = [senders EXCEPT ![c] = IF ok THEN @ ELSE @ - 1]
       /\ pc' = [pc EXCEPT ![t] = IF ok THEN "ready" ELSE "init_panic"]
       /\ exited' = IF ok THEN exited ELSE AfterPanic(t)
  /\ initCh' = [initCh EXCEPT ![t] = 0]
  /\ UNCHANGED <<cfgVars, nchan, queue, rx, sent, ntaken, discarded, workVars,
                 handle, pending, calls, issued, nlines, now>>

\* a caller enters Logger::get
CallGet(t) ==
  /\ ~exited /\ pc[t] = "ready"
  /\ pc' = [pc EXCEPT ![t] = "get"]
  /\ UNCHANGED <<cfgVars, LOGGER, nchan, initRes, chanVars, workVars,
                 handle, initCh, pending, calls, issued, nlines, now, exited>>

\* Logger::get, line 197: LOGGER.get().expect("Logger not initialized")
Get(t) ==
  /\ ~exited /\ pc[t] = "get"
  /\ handle' = [handle EXCEPT ![t] = IF OnceLockIsSet(LOGGER) THEN LOGGER ELSE @]
  /\ pc' = [pc EXCEPT ![t] = IF OnceLockIsSet(LOGGER) THEN "ready" ELSE "get_panic"]
  /\ exited' = IF OnceLockIsSet(LOGGER) THEN exited ELSE AfterPanic(t)
  /\ UNCHANGED <<cfgVars, LOGGER, nchan, initRes, chanVars, workVars,
                 initCh, pending, calls, issued, nlines, now>>

\* debug / info / warn / error -> Logger::log, lines 69-72: read the clock
\* (Local::now() returns ts, not earlier than the last reading), format
CallLog(t, meth, m, ts, cap) ==
  /\ ~exited /\ pc[t] = "ready" /\ handle[t] # 0 /\ nlines + 1 <= cap
  /\ ts >= now
  /\ now' = ts
  /\ calls' = [calls EXCEPT ![t] = @ + 1]
  /\ issued' = [issued EXCEPT ![t] = Append(@, [meth |-> meth, msg |-> m, err |-> ""])]
  /\ pending' = [pending EXCEPT ![t] = LogLines(t, calls[t] + 1, ts, LevelOf(meth), m)]
  /\ nlines' = nlines + 1
  /\ pc' = [pc EXCEPT ![t] = "send"]
  /\ UNCHANGED <<cfgVars, LOGGER, nchan, initRes, chanVars, workVars,
                 handle, initCh, exited>>

\* debug_error / .. / error_error -> Logger::log_error, lines 90-94
CallLogError(t, meth, m, e, ts, cap) ==
  /\ ~exited /\ pc[t] = "ready" /\ handle[t] # 0 /\ nlines + 2 <= cap
  /\ ts >= now
  /\ now' = ts
  /\ calls' = [calls EXCEPT ![t] = @ + 1]
  /\ issued' = [issued EXCEPT ![t] = Append(@, [meth |-> meth, msg |-> m, err |-> e])]
  /\ pending' = [pending EXCEPT ![t] =
                   LogErrorLines(t, calls[t] + 1, ts, LevelOf(meth), m, e)]
  /\ nlines' = nlines + 2
  /\ pc' = [pc EXCEPT ![t] = "send"]
  /\ UNCHANGED <<cfgVars, LOGGER, nchan, initRes, chanVars, workVars,
                 handle, initCh, exited>>

\* let _ = self.sender.send(line), lines 73, 95, 96: Err when the receiver
\* is gone, and the Err (with the line in it) is thrown away
Send(t) ==
  /\ ~exited /\ pc[t] = "send" /\ pending[t] # << >>
  /\ LET c == handle[t]
         l == Head(pending[t])
         rest == Tail(pending[t]) IN
       /\ ChannelHasRoom(queue[c])
       /\ IF ChannelConnected(rx[c])
            THEN /\ queue' = [queue EXCEPT ![c] = ChannelPush(@, l)]
                 /\ sent' = [sent EXCEPT ![c] = Append(@, l)]
                 /\ UNCHANGED discarded
            ELSE /\ discarded' = discarded \cup {l}
                 /\ UNCHANGED <<queue, sent>>
       /\ pending' = [pending EXCEPT ![t] = rest]
       /\ pc' = [pc EXCEPT ![t] = IF rest = << >> THEN "ready" ELSE "send"]
  /\ UNCHANGED <<cfgVars, LOGGER, nchan, initRes, senders, rx, ntaken, workVars,
                 handle, initCh, calls, issued, nlines, now, exited>>

\* main returns (main.rs line 37): the process ends without joining the worker
MainReturn ==
  /\ ~exited /\ pc[Main] = "ready"
  /\ \A c \in Chans : ProcessMayExit(queue[c], wstate[c])
  /\ pc' = [pc EXCEPT ![Main] = "returned"]
  /\ exited' = TRUE
  /\ UNCHANGED <<cfgVars, LOGGER, nchan, initRes, chanVars, workVars,
                 handle, initCh, pending, calls, issued, nlines, now>>

(* ------------------------------ worker ------------------------------- *)
\* lines 41-45: OpenOptions .. open(&log_file) succeeds
WOpenOk(c) ==
  /\ ~exited /\ wstate[c] = "spawned"
  /\ wstate' = [wstate EXCEPT ![c] = WorkerAfterOpen(TRUE)]
  /\ UNCHANGED <<cfgVars, LOGGER, nchan, initRes, chanVars, wpath, wcur, file, failed, errs,
                 thrVars, now, exited>>

\* line 45: .expect("Failed to open log file") panics; the unwinding drops
\* the Receiver and with it whatever is queued
WOpenFail(c) ==
  /\ ~exited /\ wstate[c] = "spawned"
  /\ wstate' = [wstate EXCEPT ![c] = WorkerAfterOpen(FALSE)]
  /\ rx' = [rx EXCEPT ![c] = "dropped"]
  /\ queue' = [queue EXCEPT ![c] = << >>]
  /\ UNCHANGED <<cfgVars, LOGGER, nchan, initRes, senders, sent, ntaken, discarded,
                 wpath, wcur, file, failed, errs, thrVars, now, exited>>

\* line 47: the iterator yields the next message
WRecv(c) ==
  /\ ~exited /\ wstate[c] = "recv" /\ queue[c] # << >>
  /\ wcur' = [wcur EXCEPT ![c] = ChannelFront(queue[c])]
  /\ queue' = [queue EXCEPT ![c] = ChannelRest(@)]
  /\ wstate' = [wstate EXCEPT ![c] = "write"]
  /\ ntaken' = [ntaken EXCEPT ![c] = @ + 1]
  /\ UNCHANGED <<cfgVars, LOGGER, nchan, initRes, senders, rx, sent, discarded,
                 wpath, file, failed, errs, thrVars, now, exited>>

\* line 47: the iterator ends (queue empty, every Sender dropped); the
\* closure returns and drops the file and the Receiver
WClose(c) ==
  /\ ~exited /\ wstate[c] = "recv" /\ ChannelDisconnected(queue[c], senders[c])
  /\ wstate' = [wstate EXCEPT ![c] = "done"]
  /\ rx' = [rx EXCEPT ![c] = "dropped"]
  /\ UNCHANGED <<cfgVars, LOGGER, nchan, initRes, queue, senders, sent, ntaken, discarded,
                 wpath, wcur, file, failed, errs, thrVars, now, exited>>

\* line 48: writeln!(file, "{message}") returns Ok
WWriteOk(c) ==
  /\ ~exited /\ wstate[c] = "write"
  /\ file' = [file EXCEPT ![wpath[c]] =
                Append(@, [line |-> wcur[c], whole |-> TRUE, by |-> c])]
  /\ wstate' = [wstate EXCEPT ![c] = WorkerAfterWrite(TRUE)]
  /\ UNCHANGED <<cfgVars, LOGGER, nchan, initRes, chanVars, wpath, wcur, failed, errs,
                 thrVars, now, exited>>

\* lines 48-50: writeln! returns Err; nothing, or only a part of the line,
\* has reached the file; the error goes to stderr and the loop goes on
WWriteFail(c, part) ==
  /\ ~exited /\ wstate[c] = "write" /\ errs < MaxWriteFails
  /\ file' = [file EXCEPT ![wpath[c]] =
                IF part THEN Append(@, [line |-> wcur[c], whole |-> FALSE, by |-> c])
                        ELSE @]
  /\ failed' = failed \cup {wcur[c]}
  /\ errs' = errs + 1
  /\ wstate' = [wstate EXCEPT ![c] = WorkerAfterWrite(FALSE)]
  /\ UNCHANGED <<cfgVars, LOGGER, nchan, initRes, chanVars, wpath, wcur,
                 thrVars, now, exited>>

\* line 51: let _ = file.flush(); then back to the head of the loop
WFlush(c) ==
  /\ ~exited /\ wstate[c] = "flush"
  /\ wstate' = [wstate EXCEPT ![c] = "recv"]
  /\ wcur' = [wcur EXCEPT ![c] = NoLine]
  /\ UNCHANGED <<cfgVars, LOGGER, nchan, initRes, chanVars, wpath, file, failed, errs,
                 thrVars, now, exited>>

Worker(c) ==
  \/ WOpenOk(c)
  \/ WOpenFail(c)
  \/ WRecv(c)
  \/ WClose(c)
  \/ WWriteOk(c)
  \/ \E part \in BOOLEAN : WWriteFail(c, part)
  \/ WFlush(c)

(* ------------------------ configuration store ----------------------- *)
logVars == <<LOGGER, nchan, initRes, senders, rx, ntaken, workVars, handle, initCh>>
PanicPcs == {"init_panic", "get_panic", "cfg_logger_panic", "cfg_unwrap_panic",
             "cfg_set_panic", "cget_panic", "cget_poison_panic", "test_panic"}
\* the Mutex of CONFIG: free, or poisoned by a holder that panicked
MutexFree == cfgGuard = NoThread
MutexPoisoned == cfgGuard # NoThread /\ pc[cfgGuard] \in PanicPcs

\* a caller enters Config::init
CallConfigInit(t) ==
  /\ ~exited /\ pc[t] = "ready"
  /\ pc' = [pc EXCEPT ![t] = "cfg_logger"]
  /\ UNCHANGED <<logVars, queue, sent, discarded, pending, calls, issued, nlines,
                 now, exited, cfgVars>>

\* Config::init, line 61: let log = Logger::get(), which panics when the
\* Logger is not published
ConfigGetLogger(t) ==
  /\ ~exited /\ pc[t] = "cfg_logger"
  /\ cfgLog' = [cfgLog EXCEPT ![t] = IF OnceLockIsSet(LOGGER) THEN LOGGER ELSE @]
  /\ pc' = [pc EXCEPT ![t] = IF OnceLockIsSet(LOGGER) THEN "cfg_path"
                                                     ELSE "cfg_logger_panic"]
  /\ exited' = IF OnceLockIsSet(LOGGER) THEN exited ELSE AfterPanic(t)
  /\ UNCHANGED <<logVars, queue, sent, discarded, pending, calls, issued, nlines, now,
                 CONFIG, cfgGuard, home, disk, cfgLocal, loaded, saveErrs>>

\* lines 64-84: home_dir() is None: a message on stderr and return; else
\* config_path.exists() chooses between the default and the file
ConfigPath(t) ==
  /\ ~exited /\ pc[t] = "cfg_path"
  /\ IF ~home
       THEN /\ pc' = [pc EXCEPT ![t] = "ready"]
            /\ UNCHANGED cfgLocal
       ELSE IF ~disk[HomeCfg].there
         THEN /\ cfgLocal' = [cfgLocal EXCEPT ![t] = <<DefaultConfig>>]
              /\ pc' = [pc EXCEPT ![t] = "cfg_save"]
         ELSE /\ pc' = [pc EXCEPT ![t] = "cfg_load"]
              /\ UNCHANGED cfgLocal
  /\ UNCHANGED <<logVars, queue, sent, discarded, pending, calls, issued, nlines,
                 now, exited, CONFIG, cfgGuard, home, disk, cfgLog, loaded, saveErrs>>

\* line 81: Config::save_config returns Ok
ConfigSaveOk(t) ==
  /\ ~exited /\ pc[t] = "cfg_save"
  /\ disk' = [disk EXCEPT ![HomeCfg] = SaveConfig(@, cfgLocal[t][1], "ok", 0)]
  /\ pc' = [pc EXCEPT ![t] = "cfg_set"]
  /\ UNCHANGED <<logVars, queue, sent, discarded, pending, calls, issued, nlines,
                 now, exited, CONFIG, cfgGuard, home, cfgLog, cfgLocal, loaded, saveErrs>>

\* lines 81-83: Config::save_config returns Err (the file could not be
\* created, or not be written to the end); log.error is next
ConfigSaveFail(t, outcome, part) ==
  /\ ~exited /\ pc[t] = "cfg_save" /\ saveErrs < MaxSaveFails
  /\ outcome # "ok"
  /\ disk' = [disk EXCEPT ![HomeCfg] = SaveConfig(@, cfgLocal[t][1], outcome, part)]
  /\ saveErrs' = saveErrs + 1
  /\ pc' = [pc EXCEPT ![t] = "cfg_log"]
  /\ UNCHANGED <<logVars, queue, sent, discarded, pending, calls, issued, nlines,
                 now, exited, CONFIG, cfgGuard, home, cfgLog, cfgLocal, loaded>>

\* lines 85-89: Config::load_config; Ok is unwrapped into config, Err is
\* logged first
ConfigLoad(t) ==
  /\ ~exited /\ pc[t] = "cfg_load"
  /\ LET r == LoadConfig(disk[HomeCfg]) IN
       /\ loaded' = [loaded EXCEPT ![t] = r]
       /\ cfgLocal' = [cfgLocal EXCEPT ![t] = IF r.ok THEN <<r.val>> ELSE @]
       /\ pc' = [pc EXCEPT ![t] = IF r.ok THEN "cfg_set" ELSE "cfg_log"]
  /\ UNCHANGED <<logVars, queue, sent, discarded, pending, calls, issued, nlines,
                 now, exited, CONFIG, cfgGuard, home, disk, cfgLog, saveErrs>>

\* lines 82, 87: log.error(..) -> Logger::log, logger.rs lines 69-72
ConfigLog(t, ts) ==
  /\ ~exited /\ pc[t] = "cfg_log"
  /\ ts >= now
  /\ now' = ts
  /\ LET m == IF loaded[t].done THEN LoadErrorText ELSE SaveErrorText IN
       /\ calls' = [calls EXCEPT ![t] = @ + 1]
       /\ issued' = [issued EXCEPT ![t] = Append(@, [meth |-> "error", msg |-> m, err |-> ""])]
       /\ pending' = [pending EXCEPT ![t] = LogLines(t, calls[t] + 1, ts, LevelOf("error"), m)]
  /\ nlines' = nlines + 1
  /\ pc' = [pc EXCEPT ![t] = "cfg_send"]
  /\ UNCHANGED <<logVars, queue, sent, discarded, exited, cfgVars>>

\* logger.rs line 73: let _ = self.sender.send(line); then back in
\* Config::init, at line 89 after a failed load, else at line 92
ConfigSend(t) ==
  /\ ~exited /\ pc[t] = "cfg_send" /\ pending[t] # << >>
  /\ LET c == cfgLog[t]
         l == Head(pending[t]) IN
       /\ ChannelHasRoom(queue[c])
       /\ IF ChannelConnected(rx[c])
            THEN /\ queue' = [queue EXCEPT ![c] = ChannelPush(@, l)]
                 /\ sent' = [sent EXCEPT ![c] = Append(@, l)]
                 /\ UNCHANGED discarded
            ELSE /\ discarded' = discarded \cup {l}
                 /\ UNCHANGED <<queue, sent>>
       /\ pending' = [pending EXCEPT ![t] = Tail(@)]
       /\ pc' = [pc EXCEPT ![t] = IF loaded[t].done THEN "cfg_unwrap" ELSE "cfg_set"]
  /\ UNCHANGED <<logVars, calls, issued, nlines, now, exited, cfgVars>>

\* line 89: load_conf.unwrap() on an Err panics
ConfigUnwrap(t) ==
  /\ ~exited /\ pc[t] = "cfg_unwrap"
  /\ pc' = [pc EXCEPT ![t] = "cfg_unwrap_panic"]
  /\ exited' = AfterPanic(t)
  /\ UNCHANGED <<logVars, queue, sent, discarded, pending, calls, issued, nlines,
                 now, cfgVars>>

\* line 92: CONFIG.set(Mutex::new(config)).expect(..)
ConfigPublish(t) ==
  /\ ~exited /\ pc[t] = "cfg_set"
  /\ CONFIG' = ConfigSet(CONFIG, cfgLocal[t])
  /\ pc' = [pc EXCEPT ![t] = IF ConfigSetOk(CONFIG) THEN "ready" ELSE "cfg_set_panic"]
  /\ exited' = IF ConfigSetOk(CONFIG) THEN exited ELSE AfterPanic(t)
  /\ loaded' = [loaded EXCEPT ![t] = NoResult]
  /\ UNCHANGED <<logVars, queue, sent, discarded, pending, calls, issued, nlines,
                 now, cfgGuard, home, disk, cfgLog, cfgLocal, saveErrs>>

\* a caller that holds no guard enters Config::get
CallConfigGet(t) ==
  /\ ~exited /\ pc[t] = "ready" /\ cfgGuard # t
  /\ pc' = [pc EXCEPT ![t] = "cget"]
  /\ UNCHANGED <<logVars, queue, sent, discarded, pending, calls, issued, nlines,
                 now, exited, cfgVars>>

\* Config::get, line 136: CONFIG.get().expect(..).lock().expect(..); lock()
\* waits while another thread holds the guard
ConfigGet(t) ==
  /\ ~exited /\ pc[t] = "cget"
  /\ ~ConfigIsSet(CONFIG) \/ MutexPoisoned \/ MutexFree
  /\ IF ~ConfigIsSet(CONFIG)
       THEN /\ pc' = [pc EXCEPT ![t] = "cget_panic"]
            /\ exited' = AfterPanic(t)
            /\ UNCHANGED cfgGuard
       ELSE IF MutexPoisoned
         THEN /\ pc' = [pc EXCEPT ![t] = "cget_poison_panic"]
              /\ exited' = AfterPanic(t)
              /\ UNCHANGED cfgGuard
         ELSE /\ pc' = [pc EXCEPT ![t] = "ready"]
              /\ cfgGuard' = t
              /\ UNCHANGED exited
  /\ UNCHANGED <<logVars, queue, sent, discarded, pending, calls, issued, nlines,
                 now, CONFIG, home, disk, cfgLog, cfgLocal, loaded, saveErrs>>

\* the MutexGuard goes out of scope
ConfigDrop(t) ==
  /\ ~exited /\ pc[t] = "ready" /\ cfgGuard = t
  /\ cfgGuard' = NoThread
  /\ UNCHANGED <<logVars, queue, sent, discarded, pc, pending, calls, issued, nlines,
                 now, exited, CONFIG, home, disk, cfgLog, cfgLocal, loaded, saveErrs>>

(* --------------- tests/config_test.rs, save and load ----------------- *)
\* line 56: the configuration under test
TestStart(c) ==
  /\ ~exited /\ pc[Main] = "ready" /\ cfgLocal[Main] = << >>
  /\ cfgLocal' = [cfgLocal EXCEPT ![Main] = <<c>>]
  /\ pc' = [pc EXCEPT ![Main] = "test_save"]
  /\ UNCHANGED <<logVars, queue, sent, discarded, pending, calls, issued, nlines,
                 now, exited, CONFIG, cfgGuard, home, disk, cfgLog, loaded, saveErrs>>

\* line 59: Config::save_config(..).unwrap() on Ok
TestSaveOk ==
  /\ ~exited /\ pc[Main] = "test_save"
  /\ disk' = [disk EXCEPT ![TmpCfg] = SaveConfig(@, cfgLocal[Main][1], "ok", 0)]
  /\ pc' = [pc EXCEPT ![Main] = "test_load"]
  /\ UNCHANGED <<logVars, queue, sent, discarded, pending, calls, issued, nlines,
                 now, exited, CONFIG, cfgGuard, home, cfgLog, cfgLocal, loaded, saveErrs>>

\* line 59: Config::save_config(..).unwrap() on Err panics
TestSaveFail(outcome, part) ==
  /\ ~exited /\ pc[Main] = "test_save" /\ saveErrs < MaxSaveFails
  /\ outcome # "ok"
  /\ disk' = [disk EXCEPT ![TmpCfg] = SaveConfig(@, cfgLocal[Main][1], outcome, part)]
  /\ saveErrs' = saveErrs + 1
  /\ pc' = [pc EXCEPT ![Main] = "test_panic"]
  /\ exited' = AfterPanic(Main)
  /\ UNCHANGED <<logVars, queue, sent, discarded, pending, calls, issued, nlines,
                 now, CONFIG, cfgGuard, home, cfgLog, cfgLocal, loaded>>

\* line 60: Config::load_config(&file_path).unwrap()
TestLoad ==
  /\ ~exited /\ pc[Main] = "test_load"
  /\ LET r == LoadConfig(disk[TmpCfg]) IN
       /\ loaded' = [loaded EXCEPT ![Main] = r]
       /\ pc' = [pc EXCEPT ![Main] = IF r.ok THEN "test_loaded" ELSE "test_panic"]
       /\ exited' = IF r.ok THEN exited ELSE AfterPanic(Main)
  /\ UNCHANGED <<logVars, queue, sent, discarded, pending, calls, issued, nlines,
                 now, CONFIG, cfgGuard, home, disk, cfgLog, cfgLocal, saveErrs>>

\* lines 62-65: assert_eq!(config, loaded), then fs::remove_file
TestCleanup ==
  /\ ~exited /\ pc[Main] = "test_loaded"
  /\ pc' = [pc EXCEPT ![Main] = IF loaded[Main].val = cfgLocal[Main][1]
                                   THEN "test_done" ELSE "test_panic"]
  /\ exited' = IF loaded[Main].val = cfgLocal[Main][1] THEN exited ELSE AfterPanic(Main)
  /\ disk' = [disk EXCEPT ![TmpCfg] =
                IF loaded[Main].val = cfgLocal[Main][1] THEN NoFile ELSE @]
  /\ UNCHANGED <<logVars, queue, sent, discarded, pending, calls, issued, nlines,
                 now, CONFIG, cfgGuard, home, cfgLog, cfgLocal, loaded, saveErrs>>

(* --------------------------- specifications -------------------------- *)
\* the methods thread t may use for its k-th logging call: any of u.meths[t],
\* or the k-th of u.script when the caller follows a script
MethAt(u, t, k) ==
  IF u.script = << >> THEN u.meths[t]
  ELSE IF k <= Len(u.script) THEN {u.script[k]} ELSE {}

\* One step of the program when the threads u.init call Logger::init with
\* paths from u.paths (at most u.inits calls), the threads u.log call
\* Logger::get and the logging methods with messages u.msgs (at most
\* u.lines lines), and the clock reads values in u.clock.
NextOn(u) ==
  \/ \E t \in u.init, p \in u.paths : CallInit(t, p, u.inits)
  \/ \E t \in u.init : InitSet(t)
  \/ \E t \in u.log : CallGet(t)
  \/ \E t \in u.log : Get(t)
  \/ \E t \in u.log, m \in u.msgs, ts \in u.clock :
        \E meth \in MethAt(u, t, calls[t] + 1) : CallLog(t, meth, m, ts, u.lines)
  \/ \E t \in u.log, m \in u.msgs, e \in ErrTexts, ts \in u.clock :
        \E meth \in MethAt(u, t, calls[t] + 1) : CallLogError(t, meth, m, e, ts, u.lines)
  \/ \E t \in u.log : Send(t)
  \/ MainReturn
  \/ \E c \in Chans : Worker(c)

\* every thread initialises and logs, one log file; the main thread logs
\* with info / info_error, the others with error / error_error
Users == [init |-> Threads, log |-> Threads,
          meths |-> [t \in Threads |-> IF t = Main THEN {"info"} ELSE {"error"}],
          script |-> << >>, msgs |-> {"a"}, paths |-> {1}, clock |-> 0..MaxClock,
          inits |-> MaxInits, lines |-> MaxLines]
Next == NextOn(Users)
Spec == Init /\ [][Next]_vars

\* the same callers within one clock reading; every worker thread keeps
\* being scheduled while the process runs
FairUsers == [Users EXCEPT !.clock = {0}]
NextFair == NextOn(FairUsers)
FairSpec == Init /\ [][NextFair]_vars /\ \A c \in Chans : WF_vars(Worker(c))

\* every thread initialises, with different paths, and logs little
InitUsers == [init |-> Threads, log |-> Threads,
              meths |-> [t \in Threads |-> {"info"}],
              script |-> << >>, msgs |-> {"a"}, paths |-> Paths, clock |-> {0},
              inits |-> MaxInits, lines |-> MaxInitLines]
NextInit == NextOn(InitUsers)
SpecInit == Init /\ [][NextInit]_vars

\* tests/logger_test.rs lines 25-28: the main thread alone logs, calling
\* debug, info, warn, error in this order (or their _error variants)
TestCalls == <<"debug", "info", "warn", "error">>
SeqUsers == [init |-> Threads, log |-> {Main},
             meths |-> [t \in Threads |-> Methods],
             script |-> TestCalls, msgs |-> Msgs, paths |-> {1}, clock |-> {0},
             inits |-> MaxInits, lines |-> MaxSeqLines]
NextSeq == NextOn(SeqUsers)
SpecSeq == Init /\ [][NextSeq]_vars

\* src/src/main.rs: the main thread calls Logger::init, Logger::get,
\* Config::init and Config::get in this order and returns; the other
\* threads call Logger::init, Config::init and Config::get at any time.
\* The home directory and the configuration file are as the run finds them.
MainInited == \E c \in Chans : initRes[c] # "none" /\ wpath[c] = MainLogPath
Others == Threads \ {Main}
SaveOutcomes == {"create_fails", "write_fails"}
ValidFile == [there |-> TRUE, readable |-> TRUE, text |-> ToStringPretty(SampleConfig)]
PriorFiles ==
  {NoFile, ValidFile, [ValidFile EXCEPT !.readable = FALSE],
   [ValidFile EXCEPT !.text = SubSeq(@, 1, 2)]}
InitMain ==
  /\ LoggerIdle
  /\ \E h \in BOOLEAN, f \in PriorFiles :
        ConfigFresh(h, [q \in CfgPaths |-> IF q = HomeCfg THEN f ELSE NoFile])
NextMain ==
  \/ ~MainInited /\ CallInit(Main, MainLogPath, MaxInits)
  \/ \E t \in Others :
        CallInit(t, OtherLogPath, IF MainInited THEN MaxInits ELSE MaxInits - 1)
  \/ \E t \in Threads : InitSet(t)
  \/ MainInited /\ handle[Main] = 0 /\ CallGet(Main)
  \/ Get(Main)
  \/ handle[Main] # 0 /\ cfgLog[Main] = 0 /\ CallConfigInit(Main)
  \/ \E t \in Others : CallConfigInit(t)
  \/ \E t \in Threads : ConfigGetLogger(t)
  \/ \E t \in Threads : ConfigPath(t)
  \/ \E t \in Threads : ConfigSaveOk(t)
  \/ \E t \in Threads, o \in SaveOutcomes, k \in 0..1 : ConfigSaveFail(t, o, k)
  \/ \E t \in Threads : ConfigLoad(t)
  \/ \E t \in Threads : ConfigLog(t, 0)
  \/ \E t \in Threads : ConfigSend(t)
  \/ \E t \in Threads : ConfigUnwrap(t)
  \/ \E t \in Threads : ConfigPublish(t)
  \/ cfgLog[Main] # 0 /\ CallConfigGet(Main)
  \/ \E t \in Others : CallConfigGet(t)
  \/ \E t \in Threads : ConfigGet(t)
  \/ \E t \in Others : ConfigDrop(t)
  \/ cfgGuard = Main /\ MainReturn
  \/ \E c \in Chans : Worker(c)
SpecMain == InitMain /\ [][NextMain]_vars

\* tests/config_test.rs, test_save_and_load_config, for every configuration
\* within the bounds and for the temporary file as the test finds it
Chars == {"a", Quote, Esc}
Strs(n) == UNION {[1..k -> Chars] : k \in 0..n}
UserConfigs == [config_path : Strs(MaxFieldLen), otp : BOOLEAN, otp_uri : {<<Quote>>}]
Configs ==
  [app_name : Strs(MaxStrLen), version : {<< >>, <<Esc>>},
   user : UNION {[1..k -> UserConfigs] : k \in 0..MaxUsers}]
InitJson ==
  /\ LoggerIdle
  /\ \E f \in PriorFiles :
        ConfigFresh(TRUE, [q \in CfgPaths |-> IF q = TmpCfg THEN f ELSE NoFile])
NextJson ==
  \/ \E c \in Configs : TestStart(c)
  \/ TestSaveOk
  \/ \E o \in SaveOutcomes, k \in 0..1 : TestSaveFail(o, k)
  \/ TestLoad
  \/ TestCleanup
SpecJson == InitJson /\ [][NextJson]_vars

(* ------------------------------ claims ------------------------------- *)
\* the lines of a sequence of file entries
RECURSIVE LinesOf(_)
LinesOf(es) == IF es = << >> THEN << >> ELSE <<Head(es).line>> \o LinesOf(Tail(es))
IsWhole(e) == e.whole
\* the complete lines in the file at path p, in file order
WholeLines(p) == LinesOf(SelectSeq(file[p], IsWhole))
\* the complete lines worker c has put into its file, in file order
Written(c) ==
  LET ByC(e) == e.whole /\ e.by = c IN LinesOf(SelectSeq(file[wpath[c]], ByC))
Range(f) == {f[i] : i \in DOMAIN f}
IsPrefix(a, b) == Len(a) <= Len(b) /\ \A i \in 1..Len(a) : a[i] = b[i]
\* line l1 was issued by its thread before line l2
IssuedBefore(l1, l2) ==
  l1.call < l2.call \/ (l1.call = l2.call /\ l1.part < l2.part)
NotFailed(l) == l \notin failed

\* C1: in every log file the lines of one thread stand in the order in which
\* that thread issued them (no line of a thread is written before an earlier
\* line of the same thread, and none twice), whatever the other threads do.
C1_PerThreadOrder ==
  \A p \in Paths : \A i, j \in DOMAIN file[p] :
    (i < j /\ file[p][i].line.src = file[p][j].line.src)
      => IssuedBefore(file[p][i].line, file[p][j].line)

\* C1 witness: a file holding two lines of one thread and a line of another
C1_Witness ==
  \E p \in Paths : \E i, j, k \in DOMAIN file[p] :
    /\ i < j
    /\ file[p][i].line.src = file[p][j].line.src
    /\ file[p][k].line.src # file[p][i].line.src
    /\ file[p][i].whole /\ file[p][j].whole /\ file[p][k].whole

\* C3 as stated: at every moment the lines a worker has written to the file
\* are a prefix of the successful sends on its channel.
C3_Original == \A c \in Chans : IsPrefix(Written(c), sent[c])

\* C3 amended: the lines the worker has taken are a prefix of the successful
\* sends (the queue holds the rest, in send order), and the file holds, in
\* that order and once each, exactly the taken lines whose write has
\* completed without error.
C3_PrefixOfSends ==
  \A c \in Chans :
    LET n == ntaken[c]
        completed == IF wstate[c] = "write" THEN n - 1 ELSE n
    IN /\ n <= Len(sent[c])
       /\ wstate[c] = "write" => wcur[c] = sent[c][n]
       /\ rx[c] = "alive" => queue[c] = SubSeq(sent[c], n + 1, Len(sent[c]))
       /\ Written(c) = SelectSeq(SubSeq(sent[c], 1, completed), NotFailed)

\* C3 witness: two threads have sent, a write has failed, and a later line
\* was written after it
C3_Witness ==
  \E c \in Chans :
    /\ Len(sent[c]) >= 3
    /\ \E i, j \in DOMAIN sent[c] : sent[c][i].src # sent[c][j].src
    /\ \E i, j \in DOMAIN sent[c] :
          i < j /\ sent[c][i] \in failed /\ sent[c][j] \in Range(Written(c))

\* the workers that are running threads, and those holding the file open
LiveWorkers == {c \in Chans : wstate[c] \in {"spawned", "recv", "write", "flush"}}
OpenHandles == {c \in Chans : wstate[c] \in {"recv", "write", "flush"}}

\* C4: at most one writer thread exists, and only the worker of the
\* published Logger holds the log file open.
C4_OneWriter ==
  /\ Cardinality(LiveWorkers) <= 1
  /\ \A c \in OpenHandles : c = LOGGER

\* C5: of the Logger::init calls that have reached LOGGER.set, exactly one has
\* published its sender and every other one has panicked; once set, LOGGER
\* (and with it every handle Logger::get has returned) never changes.
C5_State ==
  LET published == {c \in Chans : initRes[c] = "published"}
      rejected == {c \in Chans : initRes[c] = "rejected"}
  IN /\ Cardinality(published) <= 1
     /\ (published \cup rejected) # {} => published = {LOGGER}
     /\ published = {} => LOGGER = 0
     /\ Cardinality(rejected) = Cardinality({t \in Threads : pc[t] = "init_panic"})
     /\ \A t \in Threads : handle[t] # 0 => handle[t] = LOGGER
C6_GetOnly ==
  [][\A t \in Threads :
       (pc[t] = "get" /\ pc'[t] # "get") =>
          /\ IF LOGGER = 0
                THEN pc'[t] = "get_panic" /\ handle'[t] = handle[t]
                ELSE pc'[t] = "ready" /\ handle'[t] = LOGGER
          /\ UNCHANGED <<LOGGER, nchan, initRes, chanVars, workVars>>]_vars

\* C6 witness: one get has panicked and another has returned the handle
C6_Witness ==
  /\ \E t \in Threads : pc[t] = "get_panic"
  /\ \E t \in Threads : handle[t] # 0 /\ handle[t] = LOGGER

\* the two lines of the k-th call of thread t, when it was an _error call
IsErrorCall(t, k) == k \in DOMAIN issued[t] /\ issued[t][k].err # ""
Partner(l1, l2) == l1.src = l2.src /\ l1.call = l2.call /\ l1.part = 1 /\ l2.part = 2

\* C7 as stated: whenever both lines of an error-annotated call are in the
\* file, the error line is the very next line after the message line.
C7_Original ==
  \A p \in Paths : \A i, j \in DOMAIN file[p] :
    Partner(file[p][i].line, file[p][j].line) => j = i + 1

\* every line of an error-annotated call carries the call's level and, as
\* text, the message (first line) or the error's text (second line)
C7_Content(l) ==
  IsErrorCall(l.src, l.call) =>
    LET call == issued[l.src][l.call] IN
      /\ l.level = (CASE call.meth = "debug" -> "DEBUG" [] call.meth = "info" -> "INFO"
                       [] call.meth = "warn" -> "WARN" [] call.meth = "error" -> "ERROR")
      /\ l.text = IF l.part = 1 THEN call.msg ELSE call.err
\* in a sequence of lines, an error line comes after its message line, with
\* the same timestamp and level and no line of the same thread in between
C7_PairedIn(ls, lostOk) ==
  \A j \in DOMAIN ls :
    ls[j].part = 2 =>
      \/ \E i \in 1..(j - 1) :
            /\ Partner(ls[i], ls[j])
            /\ ls[i].ts = ls[j].ts /\ ls[i].level = ls[j].level
            /\ \A x \in (i + 1)..(j - 1) : ls[x].src # ls[j].src
      \/ lostOk /\ \E l \in failed : Partner(l, ls[j]) /\ l.ts = ls[j].ts /\ l.level = ls[j].level

\* C7 amended: the two lines of an error-annotated call have identical
\* timestamp and level, the first carries the message and the second the
\* error's text; they are sent one after the other by the caller, so on the
\* channel and in the file the message line precedes the error line with no
\* line of the same thread between them (lines of other threads may stand
\* between them), unless the write of the message line failed.
C7_PairInOrder ==
  /\ \A c \in Chans : C7_PairedIn(sent[c], FALSE)
  /\ \A c \in Chans : \A i \in DOMAIN sent[c] : C7_Content(sent[c][i])
  /\ \A p \in Paths : C7_PairedIn(WholeLines(p), TRUE)
  /\ \A p \in Paths : \A i \in DOMAIN file[p] : C7_Content(file[p][i].line)

\* C7 witness: both lines of an error-annotated call are in the file, with a
\* line of another thread between them
C7_Witness ==
  \E p \in Paths : \E i, x, j \in DOMAIN file[p] :
    /\ i < x /\ x < j
    /\ Partner(file[p][i].line, file[p][j].line)
    /\ file[p][x].line.src # file[p][i].line.src
    /\ file[p][i].whole /\ file[p][x].whole /\ file[p][j].whole

\* the lines held anywhere on a channel or by its worker
Retained(c) == Range(queue[c]) \cup (IF wstate[c] = "write" THEN {wcur[c]} ELSE {})

\* C8: a send made once the Receiver is gone returns to the caller (no
\* panic, the process goes on), adds nothing to any file, queue or worker,
\* and a channel whose Receiver is gone holds no line.
C8_SilentDrop ==
  /\ [](\A c \in Chans : rx[c] = "dropped" => queue[c] = << >>)
  /\ [][\A t \in Threads :
          (pc[t] = "send" /\ rx[handle[t]] = "dropped" /\ pending'[t] # pending[t]) =>
             /\ pc'[t] = (IF Len(pending[t]) = 1 THEN "ready" ELSE "send")
             /\ exited' = exited
             /\ UNCHANGED <<file, queue, sent, wcur, wstate, errs>>
             /\ \A c \in Chans : Head(pending[t]) \notin Retained(c)']_vars

\* C8 witness: a thread has made a whole logging call after the worker was
\* gone and is back in its caller
C8_Witness ==
  \E l \in discarded :
    /\ pc[l.src] = "ready" /\ ~exited
    /\ rx[handle[l.src]] = "dropped"
    /\ \A p \in Paths : \A i \in DOMAIN file[p] : file[p][i].line # l

\* C9: a caller that has formatted its line can always send it: the send is
\* enabled whatever the queue holds and whatever the worker is doing, and it
\* completes without a step of the worker.
C9_NeverBlocks ==
  \A t \in Threads : (~exited /\ pc[t] = "send") => ENABLED Send(t)

\* C9 witness: a caller about to send while lines are queued and the worker
\* is in the middle of a write
C9_Witness ==
  \E t \in Threads :
    /\ ~exited /\ pc[t] = "send"
    /\ queue[handle[t]] # << >>
    /\ wstate[handle[t]] = "write"

\* line l stands complete in the file of worker c
InFile(c, l) == l \in Range(Written(c))

\* C2 as stated, at rest: once a worker has nothing left to do (its queue is
\* empty and it waits for the next line, or it has ended), every line that
\* was handed to its channel is in the file.
C2_Original ==
  \A c \in Chans :
    (queue[c] = << >> /\ wstate[c] \in {"recv", "done", "panicked"})
      => \A i \in DOMAIN sent[c] : InFile(c, sent[c][i])

\* C2 amended: every line handed to the channel is eventually in the log file
\* unless the worker failed to open the file, the write of that line failed,
\* or the process ended first.
C2_EventuallyWritten ==
  \A c \in Chans : \A k \in 1..MaxLines :
    (Len(sent[c]) >= k) ~>
      (Len(sent[c]) >= k /\ (\/ InFile(c, sent[c][k])
                              \/ sent[c][k] \in failed
                              \/ wstate[c] = "panicked"
                              \/ exited))

\* C2 witness: lines of two threads were handed to the channel and all of
\* them are in the file
C2_Witness ==
  \E c \in Chans :
    /\ Len(sent[c]) >= 2
    /\ \E i, j \in DOMAIN sent[c] : sent[c][i].src # sent[c][j].src
    /\ \A i \in DOMAIN sent[c] : InFile(c, sent[c][i])

\* the level names of the four methods, as the claim gives them
C10_Tag == [debug |-> "DEBUG", info |-> "INFO", warn |-> "WARN", error |-> "ERROR"]
RECURSIVE LevelsOf(_)
LevelsOf(ls) == IF ls = << >> THEN << >> ELSE <<Head(ls).level>> \o LevelsOf(Tail(ls))
\* every line thread t has formatted: not yet sent, accepted, or refused
LinesMade(t) ==
  {l \in Range(pending[t]) \cup discarded \cup UNION {Range(sent[c]) : c \in Chans} :
     l.src = t}
\* the main thread has made the four calls debug, info, warn, error and the
\* worker has taken all four lines and finished with them
FourCallsDrained(c) ==
  /\ Len(issued[Main]) = 4 /\ \A k \in 1..4 : issued[Main][k].err = ""
  /\ pc[Main] \in {"ready", "returned"} /\ handle[Main] = c
  /\ Len(sent[c]) = 4 /\ ntaken[c] = 4 /\ wstate[c] \in {"recv", "flush"}

FailedAt(c) == {i \in DOMAIN sent[c] : sent[c][i] \in failed}
PosIn(q, l) == CHOOSE i \in DOMAIN q : q[i] = l
InLoop(c) == wstate[c] \in {"recv", "write", "flush"} /\ rx[c] = "alive"

\* C13: a failed write does not end the worker: a worker that has had a
\* write error is still in its receive loop with its Receiver alive; the
\* whole lines in the file stand in the order in which they were enqueued;
\* and every line enqueued behind the failed one is in time written whole
\* (unless its own write fails or the process ends first)
C13_GoesOnAfterError ==
  /\ [](\A c \in Chans : FailedAt(c) # {} => InLoop(c))
  /\ [](\A c \in Chans : \A i, j \in DOMAIN Written(c) :
          i < j => PosIn(sent[c], Written(c)[i]) < PosIn(sent[c], Written(c)[j]))
  /\ \A c \in Chans : \A i \in 1..MaxLines :
        (i \in DOMAIN sent[c] /\ \E j \in FailedAt(c) : j < i)
          ~> \/ exited
             \/ /\ i \in DOMAIN sent[c]
                /\ sent[c][i] \in failed \/ InFile(c, sent[c][i])

C13_Witness ==
  \E c \in Chans : \E i \in FailedAt(c) : \E j \in DOMAIN sent[c] :
    /\ i < j
    /\ InFile(c, sent[c][j])
    /\ wstate[c] = "recv"

(* ------------------------------- C14 --------------------------------- *)
EntriesBy(c) == {e \in UNION {Range(file[p]) : p \in Paths} : e.by = c}

\* C14: when the log file cannot be opened the worker ends without taking
\* or writing a line (its Receiver is gone although it never saw the
\* channel close) and never runs again; Logger::init still returns normally
\* and publishes the singleton; every log call made on that singleton
\* returns normally; and no line reaches any file
C14_OpenFailure ==
  /\ [](\A c \in Chans :
          /\ rx[c] = "dropped" => wstate[c] \in {"done", "panicked"}
          /\ wstate[c] = "panicked" =>
                ntaken[c] = 0 /\ queue[c] = << >> /\ EntriesBy(c) = {})
  /\ [](LOGGER # 0 /\ wstate[LOGGER] = "panicked" =>
          \A p \in Paths : file[p] = << >>)
  /\ [][\A c \in Chans : wstate[c] = "panicked" => wstate'[c] = "panicked"]_vars
  /\ [][\A t \in Threads :
          /\ pc[t] = "init_set" /\ pc'[t] # "init_set" /\ LOGGER = 0 =>
                pc'[t] = "ready" /\ LOGGER' = initCh[t] /\ exited' = exited
          /\ pc[t] = "send" /\ wstate[handle[t]] = "panicked" =>
                pc'[t] \in {"send", "ready"}]_vars

C14_Witness ==
  /\ LOGGER # 0 /\ initRes[LOGGER] = "published" /\ wstate[LOGGER] = "panicked"
  /\ \E t \in Threads : \E l \in discarded :
        l.src = t /\ handle[t] = LOGGER /\ pc[t] = "ready" /\ calls[t] = l.call
  /\ sent[LOGGER] # << >>

(* ------------------------------- C15 --------------------------------- *)
Looping(c) == wstate[c] \in {"recv", "write", "flush"}

\* C15: after a successful open the worker leaves its receive loop only
\* from the head of the loop, with no Sender left and nothing queued, and
\* then every line that was enqueued has been taken and its write tried;
\* it does not end while a Sender is alive or a queued line is pending
C15_LeavesOnlyOnClose ==
  /\ [](\A c \in Chans : wstate[c] = "done" =>
          /\ senders[c] = 0 /\ queue[c] = << >>
          /\ ntaken[c] = Len(sent[c])
          /\ \A l \in Range(sent[c]) : l \in failed \/ InFile(c, l))
  /\ [][\A c \in Chans : Looping(c) /\ ~Looping(c)' =>
          /\ wstate[c] = "recv" /\ wstate'[c] = "done"
          /\ senders[c] = 0 /\ queue[c] = << >>]_vars

C15_Witness ==
  \E c \in Chans : wstate[c] = "done" /\ rx[c] = "dropped" /\ senders[c] = 0

(* ------------------------------- C20 --------------------------------- *)
AllEntries == UNION {Range(file[p]) : p \in Paths}

\* C20: a rejected Logger::init neither redirects nor duplicates logging:
\* its channel never carries a line and has lost its only Sender, its worker
\* takes and writes nothing, every handle is the published singleton, and
\* every entry of every file was written by the worker of the init that
\* published the singleton, into that init's path and at most once
C20_RejectedInitInert ==
  /\ \A c \in Chans : initRes[c] \in {"pending", "rejected"} =>
        /\ sent[c] = << >> /\ queue[c] = << >> /\ ntaken[c] = 0
        /\ EntriesBy(c) = {}
        /\ initRes[c] = "rejected" => senders[c] = 0 /\ c # LOGGER
  /\ \A t \in Threads : handle[t] # 0 =>
        handle[t] = LOGGER /\ initRes[handle[t]] = "published"
  /\ \A p \in Paths : \A i \in DOMAIN file[p] :
        /\ file[p][i].by = LOGGER
        /\ p = wpath[LOGGER]
        /\ \A j \in DOMAIN file[p] : i # j => file[p][i].line # file[p][j].line

C20_Witness ==
  \E c \in Chans :
    /\ initRes[c] = "rejected" /\ wstate[c] = "done"
    /\ LOGGER # 0 /\ wpath[LOGGER] # wpath[c]
    /\ Len(file[wpath[LOGGER]]) >= 2
    /\ file[wpath[c]] = << >>

(* ------------------------------- C12 --------------------------------- *)
\* the test has saved its configuration (Ok) and has called load_config
SavedAndLoaded == loaded[Main].done /\ cfgLocal[Main] # << >>

\* C12 as stated: whenever save_config(c, p) has returned Ok on a writable
\* path and load_config(p) has been called right after it, the load has
\* returned Ok with a value equal to c
C12_Original ==
  SavedAndLoaded => loaded[Main].ok /\ loaded[Main].val = cfgLocal[Main][1]

\* C12: the same for every path whose file can also be read: the value
\* loaded equals the value saved field for field, the users in the same
\* order; where the file cannot be read the load returns Err
C12_RoundTrip ==
  /\ SavedAndLoaded /\ disk[TmpCfg].readable =>
        /\ loaded[Main].ok
        /\ loaded[Main].val.app_name = cfgLocal[Main][1].app_name
        /\ loaded[Main].val.version = cfgLocal[Main][1].version
        /\ Len(loaded[Main].val.user) = Len(cfgLocal[Main][1].user)
        /\ \A i \in DOMAIN cfgLocal[Main][1].user :
              loaded[Main].val.user[i] = cfgLocal[Main][1].user[i]
  /\ SavedAndLoaded /\ ~disk[TmpCfg].readable => ~loaded[Main].ok

C12_Witness ==
  /\ pc[Main] = "test_done" /\ loaded[Main].ok
  /\ Len(loaded[Main].val.user) = 2
  /\ loaded[Main].val.user[1] # loaded[Main].val.user[2]
  /\ loaded[Main].val.app_name = <<Quote, Esc>>
  /\ loaded[Main].val = cfgLocal[Main][1]

(* ------------------------------- C11 --------------------------------- *)
\* thread t is in a Config::init that found no file (lines 75-83)
OnDefaultBranch(t) ==
  pc[t] \in {"cfg_save", "cfg_log", "cfg_send", "cfg_set"} /\ ~loaded[t].done
HoldsDefault(f) ==
  f.there /\ f.text = ToStringPretty(DefaultConfig) /\ LoadConfig(f).val = DefaultConfig

\* C11 as stated: once the default configuration is published, the file
\* on disk holds exactly that configuration
C11_Original == CONFIG = <<DefaultConfig>> => HoldsDefault(disk[HomeCfg])

\* C11: a Config::init that finds no file works on the default
\* configuration (WGBridge, the package version, no users) and publishes
\* exactly it; a save_config that returns Ok leaves exactly it in the
\* file, and so the file holds it whenever it is published and no
\* save_config has failed; after a failed save_config the ERROR line is
\* formatted and the default is published all the same
C11_DefaultCreated ==
  /\ [](\A t \in Threads : OnDefaultBranch(t) =>
          /\ cfgLocal[t] = <<DefaultConfig>>
          /\ pc[t] = "cfg_send" => pending[t][1].text = SaveErrorText)
  /\ [](CONFIG = <<DefaultConfig>> /\ saveErrs = 0 => HoldsDefault(disk[HomeCfg]))
  /\ [][\A t \in Threads :
          /\ pc[t] = "cfg_save" /\ pc'[t] = "cfg_set" => HoldsDefault(disk'[HomeCfg])
          /\ OnDefaultBranch(t) /\ pc[t] = "cfg_set" /\ pc'[t] = "ready" =>
                CONFIG' = <<DefaultConfig>>
          /\ OnDefaultBranch(t) /\ pc[t] = "cfg_send" /\ pc'[t] # "cfg_send" =>
                pc'[t] = "cfg_set"]_vars

C11_Witness ==
  /\ CONFIG = <<DefaultConfig>> /\ saveErrs = 0
  /\ pc[Main] = "ready" /\ cfgLog[Main] # 0 /\ cfgLocal[Main] = <<DefaultConfig>>
  /\ HoldsDefault(disk[HomeCfg])

(* ------------------------------- C17 --------------------------------- *)
\* the load_config call of thread t's Config::init has returned Err
LoadFailed(t) == loaded[t].done /\ ~loaded[t].ok
Unusable(f) == f.there /\ (~f.readable \/ ~FromStr(f.text).ok)
\* the lines of t's latest logging call that say the load failed
LoadErrorLines(t, ls) ==
  {l \in ls : l.src = t /\ l.call = calls[t] /\ l.level = "ERROR" /\ l.text = LoadErrorText}
PastLoadError(t) == pc[t] \in {"cfg_unwrap", "cfg_unwrap_panic"}

\* C17 as stated: after the failed load the ERROR line has been enqueued
C17_Original ==
  \A t \in Threads : PastLoadError(t) =>
    Cardinality(LoadErrorLines(t, Range(sent[cfgLog[t]]))) = 1

\* C17: a Config::init that finds a file it cannot read or parse gets Err
\* from load_config, formats one ERROR line and sends it (the line is
\* enqueued when the worker's Receiver is alive and dropped otherwise),
\* and then panics: no step of it publishes CONFIG or writes the file, and
\* it never goes on to publish a default
C17_UnusableFileIsFatal ==
  /\ [](\A t \in Threads :
          /\ LoadFailed(t) => pc[t] \in {"cfg_log", "cfg_send", "cfg_unwrap", "cfg_unwrap_panic"}
          /\ PastLoadError(t) =>
                /\ LoadFailed(t)
                /\ Cardinality(LoadErrorLines(t, Range(sent[cfgLog[t]]) \cup discarded)) = 1
          /\ pc[t] = "cfg_unwrap_panic" /\ t = Main => exited)
  /\ [][\A t \in Threads :
          /\ pc[t] = "cfg_load" /\ pc'[t] # "cfg_load" /\ Unusable(disk[HomeCfg]) =>
                pc'[t] = "cfg_log" /\ LoadFailed(t)'
          /\ (LoadFailed(t) \/ pc[t] = "cfg_load") /\ pc'[t] # pc[t] =>
                disk' = disk /\ CONFIG' = CONFIG
          /\ LoadFailed(t) /\ pc[t] = "cfg_send" /\ pc'[t] # "cfg_send" =>
                /\ pc'[t] = "cfg_unwrap"
                /\ rx[cfgLog[t]] = "alive" =>
                      queue'[cfgLog[t]] = Append(queue[cfgLog[t]], Head(pending[t]))
          /\ pc[t] = "cfg_unwrap" /\ pc'[t] # "cfg_unwrap" =>
                pc'[t] = "cfg_unwrap_panic"]_vars

C17_Witness ==
  /\ pc[Main] = "cfg_unwrap_panic" /\ exited
  /\ CONFIG = << >>
  /\ Unusable(disk[HomeCfg]) /\ disk[HomeCfg].readable
  /\ Cardinality(LoadErrorLines(Main, Range(sent[cfgLog[Main]]))) = 1

(* ------------------------------- C18 --------------------------------- *)
\* thread t is inside Config::init, past its Logger::get
InConfigInit(t) ==
  pc[t] \in {"cfg_path", "cfg_save", "cfg_load", "cfg_log", "cfg_send",
             "cfg_unwrap", "cfg_set", "cfg_unwrap_panic", "cfg_set_panic"}

\* C18: a Config::init that runs while LOGGER is unset panics in its first
\* step, with the file system and CONFIG as they were (and the process
\* ends if it was the main thread); whoever is further inside Config::init
\* holds the published Logger; and main enters Config::init only after its
\* own Logger::init has published the Logger and returned
C18_LoggerBeforeConfig ==
  /\ [](\A t \in Threads :
          /\ pc[t] = "cfg_logger_panic" => cfgLog[t] = 0 /\ cfgLocal[t] = << >>
          /\ InConfigInit(t) => LOGGER # 0 /\ cfgLog[t] = LOGGER)
  /\ [](pc[Main] \in {"cfg_logger", "cfg_logger_panic"} \/ InConfigInit(Main) =>
          /\ pc[Main] # "cfg_logger_panic"
          /\ LOGGER # 0 /\ initRes[LOGGER] = "published"
          /\ wpath[LOGGER] = MainLogPath /\ handle[Main] = LOGGER)
  /\ [][\A t \in Threads :
          pc[t] = "cfg_logger" /\ pc'[t] # "cfg_logger" /\ LOGGER = 0 =>
            /\ pc'[t] = "cfg_logger_panic"
            /\ disk' = disk /\ CONFIG' = CONFIG /\ cfgGuard' = cfgGuard
            /\ t = Main => exited']_vars

C18_Witness ==
  /\ \E t \in Others : pc[t] = "cfg_logger_panic"
  /\ pc[Main] = "cfg_path"
  /\ CONFIG = << >>

(* ------------------------------- C19 --------------------------------- *)
\* C19: when the home directory cannot be determined Config::init returns
\* normally and has published nothing, logged nothing and written nothing;
\* a Config::get that finds CONFIG unset panics (ending the process when
\* main made it); a guard is held only while CONFIG is set; and CONFIG is
\* set only by the publish step of some Config::init
C19_NoHomeNoConfig ==
  /\ [](~home => CONFIG = << >> /\ nlines = 0 /\ saveErrs = 0 /\ cfgGuard = NoThread)
  /\ [](cfgGuard # NoThread => CONFIG # << >>)
  /\ [][\A t \in Threads :
          /\ pc[t] = "cfg_path" /\ pc'[t] # "cfg_path" /\ ~home =>
                /\ pc'[t] = "ready" /\ exited' = exited
                /\ CONFIG' = CONFIG /\ disk' = disk
                /\ calls' = calls /\ pending' = pending
                /\ queue' = queue /\ sent' = sent /\ discarded' = discarded
          /\ pc[t] = "cget" /\ pc'[t] # "cget" /\ CONFIG = << >> =>
                pc'[t] = "cget_panic" /\ (t = Main => exited')]_vars
  /\ [][CONFIG' # CONFIG =>
          \E t \in Threads :
            /\ pc[t] = "cfg_set" /\ pc'[t] = "ready"
            /\ CONFIG = << >> /\ CONFIG' = cfgLocal[t]]_vars

C19_Witness ==
  /\ ~home /\ cfgLog[Main] # 0
  /\ pc[Main] = "cget_panic" /\ exited
  /\ disk[HomeCfg] = NoFile

(* ------------------------------- C16 --------------------------------- *)
\* lines the channel of c has accepted and its worker has not written
Unwritten(c) == {l \in Range(sent[c]) : ~InFile(c, l) /\ l \notin failed}

\* C16: the end of main does not wait for the worker: main, at the end of
\* its body, can return whatever is queued or being written, and once the
\* process has ended no file and no queue changes any more, so that the
\* lines accepted and not written at that moment stay unwritten
C16_ExitDoesNotWait ==
  /\ [](~exited /\ pc[Main] = "ready" /\ cfgGuard = Main => ENABLED MainReturn)
  /\ [][exited => file' = file /\ queue' = queue /\ wstate' = wstate]_vars
  /\ [][exited' /\ pc'[Main] = "returned" =>
          \A c \in Chans : Unwritten(c)' = Unwritten(c)]_vars

C16_Witness ==
  /\ exited /\ pc[Main] = "returned"
  /\ LOGGER # 0 /\ wstate[LOGGER] = "recv"
  /\ queue[LOGGER] # << >>
  /\ Unwritten(LOGGER) = Range(queue[LOGGER])

====
